---- MODULE Spec2Model ----
(***************************************************************************)
(* Model of the application-ingestion and scheduling core of HMS-Portal:   *)
(*   - the applicant store (modules/database_handler.py),                  *)
(*   - the ingestion run (processing_engine.py) with the classifier's      *)
(*     fallback chain (modules/ai_classifier.py),                          *)
(*   - the free-slot search and the creation of calendar events            *)
(*     (modules/calendar_handler.py), with the booking form of app.py.     *)
(* Text values (e-mail addresses) are sequences of one-character strings,  *)
(* so that strip() and lower() are computed, not assumed.                  *)
(***************************************************************************)
EXTENDS Integers, Sequences, FiniteSets, TLC

VARIABLES
    applicants,   \* rows of table applicants: [id, name, email, status, thread]
    history,      \* rows of applicant_status_history, in insertion order
    comms,        \* rows of communications, in insertion order
    nextId,       \* next value of the SERIAL sequence applicants.id
    clock,        \* the database's CURRENT_TIMESTAMP
    okUpdates,    \* per applicant id: update_applicant_status calls that returned True
    ret,          \* the last store call and the value it returned
    inbox,        \* the Gmail messages: [id, sender, thread]
    unread,       \* ids of the messages carrying the UNREAD label
    pc,           \* position of run_once: "idle", "apps", "replies", "thread"
    processed,    \* ProcessingEngine.processed_message_ids_this_run
    batch,        \* messages of _process_new_applications still to be visited
    count,        \* count of _process_new_applications
    threads,      \* active_threads of _process_replies still to be visited
    tmsgs,        \* messages_in_thread still to be visited
    cur,          \* applicant_id of the thread being visited
    known_ids,    \* known_ids of the thread being visited
    replies,      \* count of _process_replies
    result,       \* how the last run_once ended: "none", "summary", "raised"
    runs,         \* completed and started runs
    seen,         \* per message id: what extract_info returned, run after run
    made,         \* per message id: the applicant_id the store returned for it
    not_found,    \* applicant ids whose thread lookup answered 404 in this run
    transport_errors,  \* applicant ids whose lookup raised another error in it
    active_threads,    \* active_threads of _process_replies, as applicant ids
    env,          \* per message id: how its collaborators behave (SpecTwice)
    tx,           \* per session: its call of insert_applicant_and_communication
    now,                   \* datetime.now(local_tz), in seconds
    duration_minutes,      \* argument of find_available_slots
    days_to_check,         \* argument of find_available_slots
    busy_slots,            \* the calendar's events as [start, end] intervals
    potential_slot_start,  \* the cursor of find_available_slots
    time_max,              \* the search horizon
    listing,               \* what events().list did: "none", "ok", or a failure
    available_slots,       \* the list find_available_slots returns
    spc,                   \* position in find_available_slots
    calendar_events,       \* ids of the events created on the calendar
    interviews,            \* the interviews table, in insertion order
    event_data,            \* what the last create_calendar_event call returned
    sched                  \* how the last scheduling submission ended

storeVars == <<applicants, history, comms, nextId, clock, okUpdates, ret>>

mailVars == <<inbox, unread>>

slotVars == <<now, duration_minutes, days_to_check, busy_slots,
              potential_slot_start, time_max, available_slots, spc, listing>>

schedVars == <<calendar_events, interviews, event_data, sched>>

runVars == <<pc, processed, batch, count, threads, tmsgs, cur, known_ids,
             replies, result, runs, seen, made, not_found,
             transport_errors, active_threads>>

vars == <<applicants, history, comms, nextId, clock, okUpdates, ret,
          inbox, unread, pc, processed, batch, count, threads, tmsgs, cur,
          known_ids, replies, result, runs, seen, made, not_found,
          transport_errors, active_threads, env, tx,
          now, duration_minutes, days_to_check, busy_slots, potential_slot_start,
          time_max, available_slots, spc,
          calendar_events, interviews, event_data, sched>>

-----------------------------------------------------------------------------
(* Bounds of the model *)

MaxApplicants == 2      \* applicant ids handed out by the sequence
MaxClock == 1           \* distinct database timestamps
MaxHistory == 3         \* rows of applicant_status_history
MaxMsgs == 2            \* external message ids
MaxRuns == 2            \* runs of the processing engine

-----------------------------------------------------------------------------
(* Values *)

Null == <<"null">>      \* Python None / SQL NULL for text values
None == 0               \* Python None for ids (no id returned, no message id)
NoThread == 0           \* gmail_thread_id IS NULL

RawEmails ==
    { <<"a">>, <<"A">>, <<" ", "a", " ">>, <<"B", " ">>,
      <<" ">>, <<>>, Null }

Names == {"Ann", "Unknown Applicant"}
Statuses == {"New", "Interview Round 1", "Rejected", "Hired"}
TerminalStatuses == {"Rejected", "Hired"}
Threads == {1, 2}
MsgIds == 1..MaxMsgs
ApplicantIds == 1..MaxApplicants
Faults == {"none", "conn", "exec"}   \* connection refused / a statement raised

-----------------------------------------------------------------------------
(* str.strip() and str.lower() *)

RECURSIVE lstrip(_)
lstrip(s) == IF s # <<>> /\ Head(s) = " " THEN lstrip(Tail(s)) ELSE s

RECURSIVE rstrip(_)
rstrip(s) ==
    IF s # <<>> /\ s[Len(s)] = " " THEN rstrip(SubSeq(s, 1, Len(s) - 1)) ELSE s

strip(s) == rstrip(lstrip(s))

lower_char(c) == CASE c = "A" -> "a" [] c = "B" -> "b" [] OTHER -> c

lower(s) == [i \in 1..Len(s) |-> lower_char(s[i])]

\* A plausible slip: the address is trimmed but its case is kept.
standardize_email_keep_case(raw) ==
    IF raw = Null \/ raw = <<>> THEN Null ELSE strip(raw)

\* email = applicant_data.get("Email", "").strip().lower()
\*         if applicant_data.get("Email") else None
standardize_email(raw) ==
    IF raw = Null \/ raw = <<>> THEN Null ELSE lower(strip(raw))

\* A plausible slip: `if email is None`, which lets the empty string through.
not_email_none_only(email) == email = Null

\* `if not email`
not_email(email) == email = Null \/ email = <<>>


-----------------------------------------------------------------------------
(* The applicant store: modules/database_handler.py *)

\* ret: the call, the id it returned (or was given), its truth value, and the
\* e-mail address it was called with
NoReturn == [op |-> "none", id |-> None, ok |-> FALSE, email |-> Null]

Return(op, id, ok, email) == [op |-> op, id |-> id, ok |-> ok, email |-> email]

applicant_ids == {a.id : a \in applicants}

\* the sessions that use the store at the same time, each with its connection
Sessions == {"sync", "other"}

NoTx == [phase |-> "idle", applicant_data |-> [Name |-> "", Email |-> Null],
         email_data |-> [id |-> None, sender |-> Null, thread_id |-> NoThread]]

\* A plausible slip: the duplicate check compares the address as received, and
\* never finds the stored, standardised one.
email_never_taken(email) == FALSE

\* SELECT id FROM applicants WHERE email = %s, and the UNIQUE(email) column
email_taken(email) == \E a \in applicants : a.email = email

\* A plausible slip: communications.gmail_message_id loses its UNIQUE constraint
\* and the insert its ON CONFLICT clause.
message_id_never_taken(msg_id) == FALSE

\* communications.gmail_message_id is UNIQUE
message_id_taken(msg_id) ==
    \E i \in 1..Len(comms) : comms[i].gmail_message_id = msg_id

\* A plausible slip: the first history row takes the interviews table's default.
initial_status_pending == "Pending"

\* the literal 'New' of insert_applicant_sql and of the log_status_sql parameters
initial_status == "New"

\* A plausible slip: the history INSERT is dropped from the transaction.
log_status_rows_none(applicant_id, status_name) == <<>>

\* INSERT INTO applicant_status_history (applicant_id, status_name) VALUES (..);
\* changed_at takes its DEFAULT CURRENT_TIMESTAMP
log_status_rows(applicant_id, status_name) ==
    << [applicant_id |-> applicant_id, status_name |-> status_name,
        changed_at |-> clock] >>

history_of(id) == SelectSeq(history, LAMBDA h : h.applicant_id = id)

comms_of(id) == SelectSeq(comms, LAMBDA c : c.applicant_id = id)

StoreUnchanged == UNCHANGED <<applicants, history, comms, nextId, okUpdates>>

NotStore == <<inbox, unread, pc, processed, batch, count, threads, tmsgs, cur,
              known_ids, replies, result, runs, seen, made, not_found,
              transport_errors, active_threads, env, tx,
              slotVars, schedVars>>

\* A plausible slip: the insert without its duplicate check and without the
\* UNIQUE constraints on applicants.email and communications.gmail_message_id.
insert_applicant_unchecked(applicant_data, email_data, fault) ==
    LET op == "insert_applicant_and_communication"
        email == standardize_email(applicant_data.Email)
        row == [id |-> nextId, name |-> applicant_data.Name, email |-> email,
                status |-> initial_status, thread |-> email_data.thread_id]
        comm == [applicant_id |-> nextId, gmail_message_id |-> email_data.id,
                 sender |-> email_data.sender, direction |-> "Incoming"]
    IN  /\ UNCHANGED clock
        /\ IF fault # "none" \/ not_email(email)
           THEN /\ StoreUnchanged
                /\ ret' = Return(op, None, FALSE, applicant_data.Email)
           ELSE /\ nextId <= MaxApplicants
                /\ nextId' = nextId + 1
                /\ applicants' = applicants \cup {row}
                /\ history' = history \o log_status_rows(nextId, initial_status)
                /\ comms' = IF email_data.id # None
                            THEN Append(comms, comm) ELSE comms
                /\ UNCHANGED okUpdates
                /\ ret' = Return(op, nextId, TRUE, applicant_data.Email)

\* A plausible slip: the applicant and its history row are committed before
\* the communication is inserted, so that a failing communication insert
\* leaves them behind.
insert_applicant_commit_early(applicant_data, email_data, fault) ==
    LET op == "insert_applicant_and_communication"
        email == standardize_email(applicant_data.Email)
        row == [id |-> nextId, name |-> applicant_data.Name, email |-> email,
                status |-> initial_status, thread |-> email_data.thread_id]
        comm == [applicant_id |-> nextId, gmail_message_id |-> email_data.id,
                 sender |-> email_data.sender, direction |-> "Incoming"]
    IN  /\ UNCHANGED clock
        /\ IF fault # "none" \/ not_email(email) \/ email_taken(email)
           THEN /\ StoreUnchanged
                /\ ret' = Return(op, None, FALSE, applicant_data.Email)
           ELSE /\ nextId <= MaxApplicants
                /\ nextId' = nextId + 1
                /\ applicants' = applicants \cup {row}
                /\ history' = history \o log_status_rows(nextId, initial_status)
                /\ UNCHANGED okUpdates
                /\ IF email_data.id # None /\ message_id_taken(email_data.id)
                   THEN /\ UNCHANGED comms
                        /\ ret' = Return(op, None, FALSE, applicant_data.Email)
                   ELSE /\ comms' = IF email_data.id # None
                                    THEN Append(comms, comm) ELSE comms
                        /\ ret' = Return(op, nextId, TRUE, applicant_data.Email)

\* DatabaseHandler.insert_applicant_and_communication(applicant_data, email_data)
\* fault: "conn" = _connect() left self.conn None; "exec" = a statement raised.
insert_applicant_and_communication(applicant_data, email_data, fault) ==
    LET op == "insert_applicant_and_communication"
        email == standardize_email(applicant_data.Email)
        id == nextId
        row == [id |-> id, name |-> applicant_data.Name, email |-> email,
                status |-> initial_status, thread |-> email_data.thread_id]
        comm == [applicant_id |-> id, gmail_message_id |-> email_data.id,
                 sender |-> email_data.sender, direction |-> "Incoming"]
    IN  /\ UNCHANGED clock
        /\ IF fault = "conn" \/ not_email(email) \/ email_taken(email)
              \/ fault = "exec"
           THEN \* return None before anything is written, or rollback
                /\ StoreUnchanged
                /\ ret' = Return(op, None, FALSE, applicant_data.Email)
           ELSE /\ nextId <= MaxApplicants
                /\ nextId' = nextId + 1   \* the sequence is not rolled back
                /\ IF email_data.id # None /\ message_id_taken(email_data.id)
                   THEN \* UniqueViolation on insert_comm_sql: rollback, return None
                        /\ UNCHANGED <<applicants, history, comms, okUpdates>>
                        /\ ret' = Return(op, None, FALSE, applicant_data.Email)
                   ELSE /\ applicants' = applicants \cup {row}
                        /\ history' = history \o log_status_rows(id, initial_status)
                        /\ comms' = IF email_data.id # None
                                    THEN Append(comms, comm) ELSE comms
                        /\ UNCHANGED okUpdates
                        /\ ret' = Return(op, id, TRUE, applicant_data.Email)

\* A plausible slip: applicants.email loses its UNIQUE constraint.
email_unique_violation_never(email) == FALSE

\* `email VARCHAR(255) UNIQUE`: the INSERT of a second row with the address of
\* a committed row raises UniqueViolation (it waits for the end of a
\* transaction that holds an uncommitted row with that address)
email_unique_violation(email) == \E a \in applicants : a.email = email

RaceFrame == UNCHANGED <<mailVars, runVars, env, slotVars, schedVars>>

\* insert_applicant_and_communication in session s, lines 152-170: the
\* connection, the standardised address and the duplicate check, which reads
\* the committed rows
BeginInsert(s, applicant_data, email_data) ==
    LET op == "insert_applicant_and_communication"
        email == standardize_email(applicant_data.Email)
    IN  /\ tx[s].phase # "checked"
        /\ IF not_email(email) \/ email_taken(email)
           THEN /\ tx' = [tx EXCEPT ![s] = [NoTx EXCEPT !.phase = "skipped"]]
                /\ ret' = Return(op, None, FALSE, applicant_data.Email)
           ELSE /\ tx' = [tx EXCEPT ![s] =
                            [phase |-> "checked",
                             applicant_data |-> applicant_data,
                             email_data |-> email_data]]
                /\ UNCHANGED ret
        /\ UNCHANGED <<applicants, history, comms, nextId, clock, okUpdates>>
        /\ RaceFrame

\* insert_applicant_and_communication in session s, lines 172-196: the three
\* INSERTs and the commit, or the rollback of the except clause
FinishInsert(s, fault) ==
    LET op == "insert_applicant_and_communication"
        applicant_data == tx[s].applicant_data
        email_data == tx[s].email_data
        email == standardize_email(applicant_data.Email)
        id == nextId
        row == [id |-> id, name |-> applicant_data.Name, email |-> email,
                status |-> initial_status, thread |-> email_data.thread_id]
        comm == [applicant_id |-> id, gmail_message_id |-> email_data.id,
                 sender |-> email_data.sender, direction |-> "Incoming"]
        rolled_back(cause) ==
            /\ UNCHANGED <<applicants, history, comms>>
            /\ tx' = [tx EXCEPT ![s].phase = cause]
            /\ ret' = Return(op, None, FALSE, applicant_data.Email)
    IN  /\ tx[s].phase = "checked"
        /\ UNCHANGED <<clock, okUpdates>>
        /\ RaceFrame
        /\ IF fault # "none"
           THEN rolled_back("failed") /\ UNCHANGED nextId
           ELSE /\ nextId <= MaxApplicants
                /\ nextId' = nextId + 1   \* the sequence is not rolled back
                /\ IF email_unique_violation(email)
                   THEN rolled_back("unique_violation")
                   ELSE IF email_data.id # None /\ message_id_taken(email_data.id)
                   THEN rolled_back("message_conflict")
                   ELSE /\ applicants' = applicants \cup {row}
                        /\ history' =
                             history \o log_status_rows(id, initial_status)
                        /\ comms' = IF email_data.id # None
                                    THEN Append(comms, comm) ELSE comms
                        /\ tx' = [tx EXCEPT ![s].phase = "committed"]
                        /\ ret' = Return(op, id, TRUE, applicant_data.Email)

\* applicant_status_history.applicant_id REFERENCES applicants(id)
status_target_exists(applicant_id) == applicant_id \in applicant_ids

\* A plausible slip: the status is committed before the history row is
\* inserted, and a failure of that insert (fault "exec") leaves it behind.
update_applicant_status_commit_early(applicant_id, new_status, fault) ==
    LET op == "update_applicant_status"
    IN  /\ UNCHANGED <<comms, nextId, clock>>
        /\ IF fault = "conn" \/ ~status_target_exists(applicant_id)
           THEN /\ UNCHANGED <<applicants, history, okUpdates>>
                /\ ret' = Return(op, applicant_id, FALSE, Null)
           ELSE /\ applicants' =
                     {IF a.id = applicant_id THEN [a EXCEPT !.status = new_status]
                      ELSE a : a \in applicants}
                /\ IF fault = "exec"
                   THEN /\ UNCHANGED <<history, okUpdates>>
                        /\ ret' = Return(op, applicant_id, FALSE, Null)
                   ELSE /\ Len(history) < MaxHistory
                        /\ history' =
                             history \o log_status_rows(applicant_id, new_status)
                        /\ okUpdates' = [okUpdates EXCEPT ![applicant_id] = @ + 1]
                        /\ ret' = Return(op, applicant_id, TRUE, Null)

\* DatabaseHandler.update_applicant_status(applicant_id, new_status)
update_applicant_status(applicant_id, new_status, fault) ==
    LET op == "update_applicant_status"
    IN  /\ UNCHANGED <<comms, nextId, clock>>
        /\ IF fault # "none" \/ ~status_target_exists(applicant_id)
           THEN \* return False without a connection, or rollback (a statement
                \* raised, or the history row violates its foreign key)
                /\ UNCHANGED <<applicants, history, okUpdates>>
                /\ ret' = Return(op, applicant_id, FALSE, Null)
           ELSE /\ Len(history) < MaxHistory
                /\ applicants' =
                     {IF a.id = applicant_id THEN [a EXCEPT !.status = new_status]
                      ELSE a : a \in applicants}
                /\ history' = history \o log_status_rows(applicant_id, new_status)
                /\ okUpdates' = [okUpdates EXCEPT ![applicant_id] = @ + 1]
                /\ ret' = Return(op, applicant_id, TRUE, Null)

\* A plausible slip: ON CONFLICT (gmail_message_id) DO UPDATE, so that a recorded
\* message is overwritten with the row of the later call.
insert_communication_upsert(comm_data, fault) ==
    LET op == "insert_communication"
    IN  /\ UNCHANGED <<applicants, history, nextId, clock, okUpdates>>
        /\ IF fault # "none" \/ comm_data.applicant_id \notin applicant_ids
           THEN /\ UNCHANGED comms
                /\ ret' = Return(op, comm_data.applicant_id, FALSE, Null)
           ELSE IF message_id_taken(comm_data.gmail_message_id)
           THEN /\ comms' =
                     [i \in 1..Len(comms) |->
                        IF comms[i].gmail_message_id = comm_data.gmail_message_id
                        THEN comm_data ELSE comms[i]]
                /\ ret' = Return(op, comm_data.applicant_id, TRUE, Null)
           ELSE /\ Len(comms) <= MaxMsgs
                /\ comms' = Append(comms, comm_data)
                /\ ret' = Return(op, comm_data.applicant_id, TRUE, Null)

\* DatabaseHandler.insert_communication(comm_data)
insert_communication(comm_data, fault) ==
    LET op == "insert_communication"
    IN  /\ UNCHANGED <<applicants, history, nextId, clock, okUpdates>>
        /\ IF fault # "none"
           THEN /\ UNCHANGED comms
                /\ ret' = Return(op, comm_data.applicant_id, FALSE, Null)
           ELSE IF message_id_taken(comm_data.gmail_message_id)
           THEN \* ON CONFLICT (gmail_message_id) DO NOTHING
                /\ UNCHANGED comms
                /\ ret' = Return(op, comm_data.applicant_id, TRUE, Null)
           ELSE IF comm_data.applicant_id \notin applicant_ids
           THEN \* ForeignKeyViolation: rollback, return False
                /\ UNCHANGED comms
                /\ ret' = Return(op, comm_data.applicant_id, FALSE, Null)
           ELSE /\ Len(comms) <= MaxMsgs
                /\ comms' = Append(comms, comm_data)
                /\ ret' = Return(op, comm_data.applicant_id, TRUE, Null)

\* DatabaseHandler.update_applicant_thread_id(applicant_id, thread_id)
update_applicant_thread_id(applicant_id, thread_id, fault) ==
    LET op == "update_applicant_thread_id"
    IN  /\ UNCHANGED <<history, comms, nextId, clock, okUpdates>>
        /\ IF fault # "none"
           THEN /\ UNCHANGED applicants
                /\ ret' = Return(op, applicant_id, FALSE, Null)
           ELSE /\ applicants' =
                     {IF a.id = applicant_id THEN [a EXCEPT !.thread = thread_id]
                      ELSE a : a \in applicants}
                /\ ret' = Return(op, applicant_id, TRUE, Null)

\* A plausible slip: the query loses its status filter.
get_active_threads_any_status == {a \in applicants : a.thread # NoThread}

\* DatabaseHandler.get_active_threads(): (id, gmail_thread_id) of the applicants
\* that are not in a terminal status and have a thread id
get_active_threads ==
    {a \in applicants : a.status \notin TerminalStatuses /\ a.thread # NoThread}

\* CURRENT_TIMESTAMP moves on between transactions
Tick ==
    /\ clock < MaxClock
    /\ clock' = clock + 1
    /\ UNCHANGED <<applicants, history, comms, nextId, okUpdates, ret>>
    /\ UNCHANGED NotStore

-----------------------------------------------------------------------------
(* The free-slot search: modules/calendar_handler.py                         *)
(* A time is a number of seconds since 00:00:00 of a Monday, local time      *)
(* (Asia/Kolkata has no daylight-saving shifts).                             *)

Minute == 60
Hour == 60 * Minute
Day == 24 * Hour

open_hour == 9          \* .replace(hour=9, ...), `hour < 9`
close_hour == 18        \* `hour >= 18`
step_minutes == 15      \* the 15-minute grid
default_days_to_check == 7

at(d, h, m, sec) == d * Day + h * Hour + m * Minute + sec

date_of(t) == t \div Day
hour_of(t) == (t % Day) \div Hour
minute_of(t) == (t % Hour) \div Minute
second_of(t) == t % Minute
weekday(t) == date_of(t) % 7      \* 0 = Monday ... 5 = Saturday, 6 = Sunday

\* A plausible slip: the weekend test is dropped from the loop.
is_weekend_never(t) == FALSE

\* `potential_slot_start.weekday() >= 5`
is_weekend(t) == weekday(t) >= 5

\* A plausible slip: `+ datetime.timedelta(days=...)` is lost before
\* .replace(hour=9, minute=0), so that the cursor lands a day early.
replace_hm_day_lost(t, h, m) == at(date_of(t) - 1, h, m, second_of(t))

\* datetime.replace(hour=h, minute=m): the date and the seconds are kept
replace_hm(t, h, m) == at(date_of(t), h, m, second_of(t))

\* datetime.replace(second=0, microsecond=0)
replace_s0(t) == t - second_of(t)

\* A plausible slip: the test of the evening is dropped, the cursor is the
\* rounded time whatever the hour.
initial_cursor_any_hour(t) ==
    LET b == IF hour_of(t) < open_hour
             THEN replace_s0(replace_hm(t, open_hour, 0)) ELSE t
        c == IF minute_of(b) % step_minutes # 0
             THEN b + (step_minutes - (minute_of(b) % step_minutes)) * Minute
             ELSE b
    IN  replace_s0(c)

\* lines 38-47: the initial cursor
initial_cursor(t) ==
    LET a == IF hour_of(t) >= close_hour
             THEN replace_s0(replace_hm(t + Day, open_hour, 0)) ELSE t
        b == IF hour_of(a) < open_hour
             THEN replace_s0(replace_hm(a, open_hour, 0)) ELSE a
        c == IF minute_of(b) % step_minutes # 0
             THEN b + (step_minutes - (minute_of(b) % step_minutes)) * Minute
             ELSE b
    IN  replace_s0(c)

\* A plausible slip: only the start of the candidate is tested against the
\* busy period.
conflicts_start_only(slot_start, slot_end, busy_period) ==
    slot_start >= busy_period.start /\ slot_start < busy_period.end

\* A plausible slip: the overlap test with <= and >=, so that touching
\* intervals conflict.
conflicts_closed(slot_start, slot_end, busy_period) ==
    slot_start <= busy_period.end /\ slot_end >= busy_period.start

\* line 97: the strict overlap test against one busy period
conflicts(slot_start, slot_end, busy_period) ==
    slot_start < busy_period.end /\ slot_end > busy_period.start

\* A plausible slip: the busy periods are never compared with the candidate.
is_free_ignoring_busy(slot_start, slot_end) == TRUE

\* lines 95-99
is_free(slot_start, slot_end) ==
    \A busy_period \in busy_slots : ~conflicts(slot_start, slot_end, busy_period)

\* A plausible slip: the end of an all-day entry is read from its start date.
all_day_without_length(d) == [start |-> at(d, 0, 0, 0), end |-> at(d, 0, 0, 0)]

\* An all-day entry ('date' without 'T'): midnight to the end date's midnight
all_day(d) == [start |-> at(d, 0, 0, 0), end |-> at(d + 1, 0, 0, 0)]

meeting(d, h, m, minutes) ==
    [start |-> at(d, h, m, 0), end |-> at(d, h, m, 0) + minutes * Minute]

\* lines 28-78: the arguments are taken, the cursor and the horizon computed and
\* the events read
FindSlots ==
    /\ spc = "call"
    /\ potential_slot_start' = initial_cursor(now)
    /\ time_max' = initial_cursor(now) + days_to_check * Day
    /\ available_slots' = <<>>
    /\ listing' = "ok"
    /\ spc' = "loop"
    /\ UNCHANGED <<now, duration_minutes, days_to_check, busy_slots>>
    /\ UNCHANGED <<storeVars, mailVars, runVars, env, tx, schedVars>>

\* lines 32-34 and 63-65: find_available_slots without a calendar service
\* ("no_service"), or events().list raises ("list_raises"): `return []`
FindSlotsFails(cause) ==
    /\ spc = "call"
    /\ listing' = cause
    /\ IF cause = "no_service"
       THEN UNCHANGED <<potential_slot_start, time_max>>
       ELSE /\ potential_slot_start' = initial_cursor(now)
            /\ time_max' = initial_cursor(now) + days_to_check * Day
    /\ available_slots' = <<>>
    /\ spc' = "done"
    /\ UNCHANGED <<now, duration_minutes, days_to_check, busy_slots>>
    /\ UNCHANGED <<storeVars, mailVars, runVars, env, tx, schedVars>>

\* A plausible slip: the loop test with <=, so that the horizon itself is tried.
InLoop_inclusive == spc = "loop" /\ potential_slot_start <= time_max

\* line 81: `while potential_slot_start < time_max`
InLoop == spc = "loop" /\ potential_slot_start < time_max

SlotFrame ==
    /\ UNCHANGED <<now, duration_minutes, days_to_check, busy_slots, time_max,
                   listing>>
    /\ UNCHANGED <<storeVars, mailVars, runVars, env, tx, schedVars>>

\* A plausible slip: the days up to Monday are not added.
days_to_add_none(t) == 0

\* line 84: `days_to_add = 7 - potential_slot_start.weekday()`
days_to_add(t) == 7 - weekday(t)

\* lines 83-86: skip weekends
SkipWeekend ==
    /\ InLoop
    /\ is_weekend(potential_slot_start)
    /\ potential_slot_start' =
          replace_hm(potential_slot_start
                       + days_to_add(potential_slot_start) * Day, open_hour, 0)
    /\ UNCHANGED <<available_slots, spc>>
    /\ SlotFrame

\* lines 89-91: past 6 PM, on to 9 AM of the next day
SkipEvening ==
    /\ InLoop
    /\ ~is_weekend(potential_slot_start)
    /\ hour_of(potential_slot_start) >= close_hour
    /\ potential_slot_start' =
          replace_hm(potential_slot_start + Day, open_hour, 0)
    /\ UNCHANGED <<available_slots, spc>>
    /\ SlotFrame

\* lines 93-104: the candidate at the cursor
TrySlot ==
    /\ InLoop
    /\ ~is_weekend(potential_slot_start)
    /\ hour_of(potential_slot_start) < close_hour
    /\ available_slots' =
          IF is_free(potential_slot_start,
                     potential_slot_start + duration_minutes * Minute)
          THEN Append(available_slots, potential_slot_start)
          ELSE available_slots
    /\ potential_slot_start' = potential_slot_start + step_minutes * Minute
    /\ UNCHANGED spc
    /\ SlotFrame

\* lines 106-107
ReturnSlots ==
    /\ spc = "loop"
    /\ ~(potential_slot_start < time_max)
    /\ spc' = "done"
    /\ UNCHANGED <<potential_slot_start, available_slots>>
    /\ SlotFrame

InitSlotsIdle ==
    /\ now = 0
    /\ duration_minutes = 0
    /\ days_to_check = 0
    /\ busy_slots = {}
    /\ potential_slot_start = 0
    /\ time_max = 0
    /\ available_slots = <<>>
    /\ listing = "none"
    /\ spc = "idle"

-----------------------------------------------------------------------------
(* Scheduling an interview: CalendarHandler.create_calendar_event and the      *)
(* booking form of schedule_dialog in app.py                                 *)

MaxEvents == 2          \* events created on the calendar

NoUrl == "None"
Urls == {NoUrl, "", "/file/d/abc/view", "https://example.org/cv.pdf"}

\* CalendarHandler._get_direct_download_link(drive_url)
_get_direct_download_link(drive_url) ==
    IF drive_url = NoUrl \/ drive_url = "" THEN NoUrl
    ELSE IF drive_url = "/file/d/abc/view" THEN "uc?export=download&id=abc"
    ELSE drive_url

NoJd == [name |-> "None", drive_url |-> NoUrl]
JdInfos == {NoJd} \cup [name : {"JD"}, drive_url : {NoUrl, "", "/file/d/abc/view"}]

\* lines 114-130: the attachments put into the event body
resume_attachment(resume_url) ==
    IF resume_url # NoUrl /\ resume_url # ""
          /\ _get_direct_download_link(resume_url) # NoUrl
    THEN {[title |-> "Resume", fileUrl |-> _get_direct_download_link(resume_url)]}
    ELSE {}

jd_attachment(jd_info) ==
    IF jd_info # NoJd /\ jd_info.drive_url # NoUrl /\ jd_info.drive_url # ""
          /\ _get_direct_download_link(jd_info.drive_url) # NoUrl
    THEN {[title |-> "Job Description",
           fileUrl |-> _get_direct_download_link(jd_info.drive_url)]}
    ELSE {}

\* what the caller asked to have attached: a resume when it passed a resume
\* URL, a job description when it passed a jd_info
requested(resume_url, jd_info) ==
    (IF resume_url # NoUrl /\ resume_url # "" THEN {"Resume"} ELSE {}) \cup
    (IF jd_info # NoJd THEN {"Job Description"} ELSE {})

\* `return None`
NoEvent == [id |-> None, shape |-> "none", attachments |-> {}, requested |-> {}]

\* The answers of service.events().insert(...).execute(): it raises, or it
\* returns the provider's event. create_calendar_event returns that object as
\* it is; the booking form reads ['ics_data'] and ['google_event']['id'] from
\* it, keys that a "plain" event does not carry and an "invite" event does.
InsertAnswers == {"raise", "plain", "invite"}

next_event_id == Cardinality(calendar_events) + 1

\* CalendarHandler.create_calendar_event(..., resume_url, jd_info): the value
\* returned
create_calendar_event(service, resume_url, jd_info, answer) ==
    IF ~service \/ answer = "raise" THEN NoEvent
    ELSE [id |-> next_event_id, shape |-> answer,
          attachments |-> resume_attachment(resume_url) \cup jd_attachment(jd_info),
          requested |-> requested(resume_url, jd_info)]

\* the calendar after the call
calendar_after(event) ==
    IF event = NoEvent THEN calendar_events ELSE calendar_events \cup {event.id}

\* A call of create_calendar_event with attachments to resolve
CallCreateEvent ==
    \E service \in BOOLEAN, resume_url \in Urls, jd_info \in JdInfos,
       answer \in InsertAnswers :
        LET event == create_calendar_event(service, resume_url, jd_info, answer)
        IN  /\ next_event_id <= MaxEvents
            /\ event_data' = event
            /\ calendar_events' = calendar_after(event)
            /\ UNCHANGED <<interviews, sched>>
            /\ UNCHANGED <<storeVars, mailVars, runVars, env, tx, slotVars>>

\* A plausible slip: the booking form goes on whatever create_calendar_event
\* returned.
event_usable_always(event) == TRUE

\* app.py 866-871, 899: `if event_data:` and the reads of event_data['ics_data']
\* and event_data['google_event']['id'], which raise on an object without them
event_usable(event) == event # NoEvent /\ event.shape = "invite"

\* DatabaseHandler.log_interview(applicant_id, i_id, title, start, end, event_id)
log_interview(applicant_id, event_id, fault) ==
    IF fault # "none" \/ applicant_id \notin applicant_ids
    THEN interviews
    ELSE Append(interviews, [applicant_id |-> applicant_id,
                             google_calendar_event_id |-> event_id,
                             status |-> "Scheduled"])

\* "Confirm & Send Email" of the booking form, app.py 855-915, for an applicant
\* of the store: create the event, send the mail, log the interview and the
\* outgoing communication.
ScheduleInterview ==
    \E applicant_id \in applicant_ids, service \in BOOLEAN,
       answer \in InsertAnswers, sent_message \in MsgIds \cup {None},
       log_fault \in Faults, comm_fault \in Faults :
        LET event == create_calendar_event(service, NoUrl, NoJd, answer)
        IN  /\ next_event_id <= MaxEvents
            /\ event_data' = event
            /\ calendar_events' = calendar_after(event)
            /\ IF ~event_usable(event)
               THEN /\ sched' = IF event = NoEvent THEN "no_event" ELSE "key_error"
                    /\ UNCHANGED <<interviews, storeVars>>
               ELSE IF sent_message = None
               THEN /\ sched' = "send_failed"
                    /\ UNCHANGED <<interviews, storeVars>>
               ELSE /\ sched' = "sent"
                    /\ interviews' = log_interview(applicant_id, event.id, log_fault)
                    /\ insert_communication(
                          [applicant_id |-> applicant_id,
                           gmail_message_id |-> sent_message,
                           sender |-> <<"H", "R">>, direction |-> "Outgoing"],
                          comm_fault)
            /\ UNCHANGED <<mailVars, runVars, env, tx, slotVars>>

InitSchedIdle ==
    /\ calendar_events = {}
    /\ interviews = <<>>
    /\ event_data = NoEvent
    /\ sched = "idle"

-----------------------------------------------------------------------------
(* The classifier: modules/ai_classifier.py *)

\* What one backend answers: nothing usable (request failed, timed out, or the
\* text held no JSON object), a profile whose Name is empty, or a named profile.
NoProfile == [ok |-> FALSE, Name |-> ""]
BackendAnswers ==
    {NoProfile, [ok |-> TRUE, Name |-> ""], [ok |-> TRUE, Name |-> "Ann"]}

\* AIClassifier._extract_with_huggingface_multiple_models: a parsed result is
\* returned only `if parsed_result and parsed_result.get('Name')`
_extract_with_huggingface_multiple_models(answer) ==
    IF answer.ok /\ answer.Name # "" THEN answer ELSE NoProfile

\* the dict extract_info returns when all AI methods fail
fallback_profile == [ok |-> TRUE, Name |-> "Unknown Applicant"]

\* AIClassifier.extract_info: Groq, then Hugging Face, then Ollama, then the
\* minimal structured data
extract_info(groq, hf, ollama) ==
    IF groq.ok THEN groq
    ELSE IF _extract_with_huggingface_multiple_models(hf).ok
         THEN _extract_with_huggingface_multiple_models(hf)
    ELSE IF ollama.ok THEN ollama
    ELSE fallback_profile

all_backends_failed(groq, hf, ollama) ==
    ~groq.ok /\ ~_extract_with_huggingface_multiple_models(hf).ok /\ ~ollama.ok

-----------------------------------------------------------------------------
(* The ingestion run: processing_engine.py *)

\* How the collaborators behave while one message is handled:
\*   stage "no_content"     get_email_content returned nothing
\*   stage "raise"          a call before the classifier raised (content fetch,
\*                          attachment download, upload, text extraction)
\*   stage "no_attachment"  save_attachment returned no path
\*   stage "classify"       the classifier is reached; groq, hf, ollama are the
\*                          backends' answers and fault is the store's
\*   stage "raise_mark"     as "classify", and mark_as_read raises afterwards
EarlyOutcomes ==
    { [stage |-> st, groq |-> NoProfile, hf |-> NoProfile, ollama |-> NoProfile,
       fault |-> "none"] : st \in {"no_content", "raise", "no_attachment"} }

ClassifyOutcomes(stages) ==
    [stage : stages, groq : BackendAnswers, hf : BackendAnswers,
     ollama : BackendAnswers, fault : Faults]

Outcomes == EarlyOutcomes \cup ClassifyOutcomes({"classify"})

message(m) == CHOOSE x \in inbox : x.id = m

\* A plausible slip: a handled message is left unread.
mark_as_read_forgotten(m) == unread

\* EmailHandler.mark_as_read(msg_id): the message leaves the unread query
mark_as_read(m) == unread \ {m}

\* `not ai_data or not ai_data.get('Name')`
no_usable_name(ai_data) == ~ai_data.ok \/ ai_data.Name = ""

ai_kind(o) ==
    IF all_backends_failed(o.groq, o.hf, o.ollama) THEN "all_failed"
    ELSE IF no_usable_name(extract_info(o.groq, o.hf, o.ollama)) THEN "noname"
    ELSE "ok"

\* the address extract_info reads in the resume ('Email' of its result)
classifier_email == <<"c", "v">>

\* A plausible slip: the classifier's 'Email' is not overridden.
applicant_record_classifier_email(ai_data, email_data) ==
    [Name |-> ai_data.Name, Email |-> classifier_email]

\* `applicant_data = {**ai_data, 'Email': email_data['sender'], 'CV_URL': ..}`
applicant_record(ai_data, email_data) ==
    [Name |-> ai_data.Name, Email |-> email_data.sender]

\* ProcessingEngine._process_single_email(msg_id), with the collaborators
\* behaving as o says
_process_single_email(m, o) ==
    LET email_data == [id |-> m, sender |-> message(m).sender,
                       thread_id |-> message(m).thread]
        ai_data == extract_info(o.groq, o.hf, o.ollama)
        applicant_data == applicant_record(ai_data, email_data)
    IN  IF o.stage \in {"no_content", "raise"}
        THEN \* `if not email_data: return`, or the except clause logs the error
             /\ UNCHANGED <<storeVars, unread, seen, made>>
        ELSE IF o.stage = "no_attachment"
        THEN /\ unread' = mark_as_read(m)
             /\ UNCHANGED <<storeVars, seen, made>>
        ELSE /\ seen' = [seen EXCEPT ![m] = Append(@, ai_kind(o))]
             /\ IF no_usable_name(ai_data)
                THEN \* the email remains unread and is retried in the next cycle
                     /\ UNCHANGED <<storeVars, unread, made>>
                ELSE /\ insert_applicant_and_communication(
                            applicant_data, email_data, o.fault)
                     /\ made' = [made EXCEPT ![m] = ret'.id]
                     \* mark_as_read in both branches of `if applicant_id`
                     /\ unread' = IF o.stage = "raise_mark" THEN unread
                                  ELSE mark_as_read(m)

Me == <<"m", "e">>       \* the sender get_email_content reports for HR's own mail
Senders == { <<"a">>, <<" ", "A">>, <<"b">>, Me }

inbox_ids == {x.id : x \in inbox}

RECURSIVE Orderings(_)
Orderings(S) ==
    IF S = {} THEN {<<>>}
    ELSE UNION { { <<x>> \o q : q \in Orderings(S \ {x}) } : x \in S }

RECURSIVE Ascending(_)
Ascending(S) ==
    IF S = {} THEN <<>>
    ELSE LET x == CHOOSE y \in S : \A z \in S : y <= z
         IN  <<x>> \o Ascending(S \ {x})

\* EmailHandler.fetch_unread_emails(): the unread messages, in Gmail's order
fetch_unread_emails == Orderings(unread)

\* EmailHandler.fetch_new_messages_in_thread(thread_id): the thread's messages
fetch_new_messages_in_thread(thread_id) ==
    Ascending({x.id : x \in {y \in inbox : y.thread = thread_id}})

\* processing_engine.py imports no HttpError: the name in `except HttpError`
\* is unbound when the clause is evaluated
HttpError_imported == FALSE

\* A new message reaches the mailbox, unread.
Arrive ==
    \E m \in MsgIds \ inbox_ids, s \in Senders, t \in Threads :
        /\ \A k \in MsgIds \ inbox_ids : m <= k
        /\ inbox' = inbox \cup {[id |-> m, sender |-> s, thread |-> t]}
        /\ unread' = unread \cup {m}
        /\ UNCHANGED <<storeVars, runVars, env, tx, slotVars, schedVars>>

\* `self.processed_message_ids_this_run = set()` of the engine made for the run
processed_message_ids_this_run == {}

\* A plausible slip: run_once catches the exception and returns its summary.
fetch_failure_swallowed == "summary"

\* run_once and _process_new_applications have no try statement around
\* fetch_unread_emails: its exception leaves run_once
fetch_failure == "raised"

\* run_once on a new ProcessingEngine, up to the loop of
\* _process_new_applications; fetch = "raise": the mail source is unreachable
StartRunWith(fetch) ==
        /\ pc = "idle"
        /\ runs < MaxRuns
        /\ runs' = runs + 1
        /\ processed' = processed_message_ids_this_run
        /\ count' = 0
        /\ replies' = 0
        /\ not_found' = {}
        /\ transport_errors' = {}
        /\ active_threads' = <<>>
        /\ threads' = <<>>
        /\ tmsgs' = <<>>
        /\ cur' = None
        /\ known_ids' = {}
        /\ IF fetch = "raise"
           THEN /\ result' = fetch_failure
                /\ pc' = "idle"
                /\ batch' = <<>>
           ELSE /\ result' = "none"
                /\ pc' = "apps"
                /\ batch' \in fetch_unread_emails
        /\ UNCHANGED <<storeVars, mailVars, seen, made, env, tx, slotVars,
                       schedVars>>

StartRun == \E fetch \in {"ok", "raise"} : StartRunWith(fetch)

\* A plausible slip: _process_single_email without its try/except, so that an
\* exception of a collaborator leaves it.
exception_escapes_uncaught(o) == o.stage \in {"raise", "raise_mark"}

\* `except Exception as e` of _process_single_email covers its whole body: no
\* exception raised while a message is handled leaves it
exception_escapes(o) == FALSE

\* one iteration of `for msg in messages` in _process_new_applications
VisitEmail(o) ==
    /\ pc = "apps"
    /\ batch # <<>>
    /\ IF Head(batch) \in processed
       THEN /\ batch' = Tail(batch)
            /\ UNCHANGED <<storeVars, unread, seen, made, processed, count>>
            /\ UNCHANGED <<pc, result>>
       ELSE /\ _process_single_email(Head(batch), o)
            /\ IF exception_escapes(o)
               THEN \* the exception leaves the loop, the step and run_once
                    /\ pc' = "idle"
                    /\ result' = "raised"
                    /\ UNCHANGED <<batch, processed, count>>
               ELSE /\ batch' = Tail(batch)
                    /\ processed' = processed \cup {Head(batch)}
                    /\ count' = count + 1
                    /\ UNCHANGED <<pc, result>>
    /\ UNCHANGED <<inbox, threads, tmsgs, cur, known_ids, replies,
                   runs, not_found, transport_errors, active_threads, env, tx,
                   slotVars, schedVars>>

NextEmail == \E o \in Outcomes : VisitEmail(o)

\* `return count`, then _process_replies up to its loop
BeginReplies ==
    /\ pc = "apps"
    /\ batch = <<>>
    /\ pc' = "replies"
    /\ active_threads' = Ascending({a.id : a \in get_active_threads})
    /\ threads' = active_threads'
    /\ UNCHANGED <<storeVars, mailVars, processed, batch, count, tmsgs, cur,
                   known_ids, replies, result, runs, seen, made, not_found,
                   transport_errors, env, tx,
                   slotVars, schedVars>>

thread_of(id) == (CHOOSE a \in applicants : a.id = id).thread

\* the run ends with an exception leaving run_once
Propagate ==
    /\ result' = "raised"
    /\ pc' = "idle"
    /\ UNCHANGED <<threads, tmsgs>>

\* one iteration of `for applicant_id, thread_id in active_threads`, up to the
\* inner loop; lookup is what fetch_new_messages_in_thread does: "ok", or it
\* raises HttpError 404 ("not_found"), another HttpError ("http_error") or
\* another exception ("error")
VisitThread(lookup, fault) ==
    LET applicant_id == Head(threads)
        thread_id == thread_of(applicant_id)
        messages_in_thread == fetch_new_messages_in_thread(thread_id)
    IN  /\ pc = "replies"
        /\ threads # <<>>
        /\ not_found' = IF lookup = "not_found"
                        THEN not_found \cup {applicant_id} ELSE not_found
        /\ transport_errors' = IF lookup \in {"http_error", "error"}
                               THEN transport_errors \cup {applicant_id}
                               ELSE transport_errors
        /\ IF lookup # "ok" /\ ~HttpError_imported
           THEN \* evaluating `except HttpError` raises NameError
                /\ Propagate
                /\ UNCHANGED <<storeVars, cur, known_ids>>
           ELSE IF lookup = "not_found"
           THEN /\ update_applicant_thread_id(applicant_id, NoThread, fault)
                /\ threads' = Tail(threads)
                /\ UNCHANGED <<pc, tmsgs, cur, known_ids, result>>
           ELSE IF lookup # "ok" \/ messages_in_thread = <<>>
           THEN \* logged, `continue`
                /\ threads' = Tail(threads)
                /\ UNCHANGED <<storeVars, pc, tmsgs, cur, known_ids, result>>
           ELSE /\ threads' = Tail(threads)
                /\ cur' = applicant_id
                /\ known_ids' = {comms_of(applicant_id)[i].gmail_message_id :
                                    i \in 1..Len(comms_of(applicant_id))}
                /\ tmsgs' = messages_in_thread
                /\ pc' = "thread"
                /\ UNCHANGED <<storeVars, result>>
        /\ UNCHANGED <<mailVars, processed, batch, count, replies, runs, seen,
                       made, active_threads, env, tx, slotVars, schedVars>>

NextThread ==
    \E lookup \in {"ok", "not_found", "http_error", "error"},
       fault \in Faults : VisitThread(lookup, fault)

\* A plausible slip: the reply step does not look at RunState.
already_handled_never(msg_id) == msg_id \in known_ids

\* `if msg_id in known_ids or msg_id in self.processed_message_ids_this_run`
already_handled(msg_id) == msg_id \in known_ids \/ msg_id \in processed

\* A plausible slip: the test of the sender is dropped.
is_own_mail_never(email_data) == FALSE

\* `email_data['sender'] == 'me'`
is_own_mail(email_data) == email_data.sender = Me

\* one iteration of `for msg_summary in messages_in_thread`; content is what
\* get_email_content does: "ok", "none" (nothing returned) or "raise"
VisitReply(content, fault) ==
    LET msg_id == Head(tmsgs)
        email_data == message(msg_id)
        comm_data == [applicant_id |-> cur, gmail_message_id |-> msg_id,
                      sender |-> email_data.sender, direction |-> "Incoming"]
        back == IF Tail(tmsgs) = <<>> THEN "replies" ELSE "thread"
    IN  /\ pc = "thread"
        /\ tmsgs # <<>>
        /\ IF already_handled(msg_id)
           THEN /\ tmsgs' = Tail(tmsgs)
                /\ pc' = back
                /\ UNCHANGED <<storeVars, processed, replies, result, threads>>
           ELSE IF content = "raise"
           THEN \* no try block around the inner loop
                /\ Propagate
                /\ UNCHANGED <<storeVars, processed, replies>>
           ELSE IF content = "none" \/ is_own_mail(email_data)
           THEN /\ processed' = processed \cup {msg_id}
                /\ tmsgs' = Tail(tmsgs)
                /\ pc' = back
                /\ UNCHANGED <<storeVars, replies, result, threads>>
           ELSE /\ insert_communication(comm_data, fault)
                /\ processed' = processed \cup {msg_id}
                /\ replies' = replies + 1
                /\ tmsgs' = Tail(tmsgs)
                /\ pc' = back
                /\ UNCHANGED <<result, threads>>
        /\ UNCHANGED <<mailVars, batch, count, cur, known_ids, runs, seen, made,
                       not_found, transport_errors, active_threads, env, tx,
                       slotVars, schedVars>>

NextReply ==
    \E content \in {"ok", "none", "raise"}, fault \in Faults :
        VisitReply(content, fault)

\* `return count` of _process_replies and the summary of run_once
FinishRun ==
    /\ pc = "replies"
    /\ threads = <<>>
    /\ pc' = "idle"
    /\ result' = "summary"
    /\ UNCHANGED <<storeVars, mailVars, processed, batch, count, threads, tmsgs,
                   cur, known_ids, replies, runs, seen, made, not_found,
                   transport_errors, active_threads, env, tx,
                   slotVars, schedVars>>

NoOutcome == [stage |-> "none"]

InitRunVars ==
    /\ pc = "idle"
    /\ processed = {}
    /\ batch = <<>>
    /\ count = 0
    /\ threads = <<>>
    /\ tmsgs = <<>>
    /\ cur = None
    /\ known_ids = {}
    /\ replies = 0
    /\ result = "none"
    /\ runs = 0
    /\ seen = [m \in MsgIds |-> <<>>]
    /\ made = [m \in MsgIds |-> None]
    /\ not_found = {}
    /\ transport_errors = {}
    /\ active_threads = <<>>

InitStoreVars ==
    /\ tx = [s \in Sessions |-> NoTx]
    /\ applicants = {}
    /\ history = <<>>
    /\ comms = <<>>
    /\ nextId = 1
    /\ clock = 0
    /\ okUpdates = [id \in ApplicantIds |-> 0]
    /\ ret = NoReturn

\* the store on its own: no mailbox, no run
InitStoreOnly ==
    /\ InitStoreVars
    /\ InitRunVars
    /\ inbox = {}
    /\ unread = {}
    /\ env = [m \in MsgIds |-> NoOutcome]
    /\ InitSlotsIdle
    /\ InitSchedIdle

\* Spec: the mailbox, and sync runs one after the other
Init == InitStoreOnly

Next ==
    \/ Arrive
    \/ StartRun
    \/ NextEmail
    \/ BeginReplies
    \/ NextThread
    \/ NextReply
    \/ FinishRun

Spec == Init /\ [][Next]_vars

\* SpecTwice: _process_new_applications run after run over one mailbox, every
\* collaborator behaving for a message as it did before (env). Here mark_as_read
\* may raise as well (stage "raise_mark").
TwiceOutcomes ==
    EarlyOutcomes \cup
    { o \in ClassifyOutcomes({"classify", "raise_mark"}) :
        /\ o.hf = NoProfile
        /\ o.ollama = NoProfile
        /\ o.fault # "conn"
        /\ (o.groq.ok /\ o.groq.Name = "") => o.fault = "none"
        /\ o.stage = "raise_mark" => (o.fault = "none" /\ ~no_usable_name(o.groq)) }

InitTwice ==
    /\ InitStoreVars
    /\ InitRunVars
    /\ inbox \in { box \in SUBSET [id : MsgIds, sender : {<<"a">>, <<" ", "A">>},
                                   thread : {1}] :
                     \A m \in MsgIds : Cardinality({x \in box : x.id = m}) = 1 }
    /\ unread = MsgIds
    /\ env \in [MsgIds -> TwiceOutcomes]
    /\ InitSlotsIdle
    /\ InitSchedIdle

StartApps == StartRunWith("ok")

ReplayEmail == pc = "apps" /\ batch # <<>> /\ VisitEmail(env[Head(batch)])

\* `return count`
EndApps ==
    /\ pc = "apps"
    /\ batch = <<>>
    /\ pc' = "idle"
    /\ result' = "summary"
    /\ UNCHANGED <<storeVars, mailVars, processed, batch, count, threads, tmsgs,
                   cur, known_ids, replies, runs, seen, made, not_found,
                   transport_errors, active_threads, env, tx,
                   slotVars, schedVars>>

NextTwice ==
    \/ StartApps
    \/ ReplayEmail
    \/ EndApps

SpecTwice == InitTwice /\ [][NextTwice]_vars

\* SpecFetch: as SpecTwice, with a mail source that may be unreachable when a
\* run lists the unread messages
FetchFails == StartRunWith("raise")

NextFetch ==
    \/ NextTwice
    \/ FetchFails

SpecFetch == InitTwice /\ [][NextFetch]_vars

\* SpecReplies: sync runs with working collaborators over a mailbox that
\* receives mail at any time, while the dashboard changes statuses.
RepliesOutcomes ==
    { o \in ClassifyOutcomes({"classify"}) :
        /\ o.groq = [ok |-> TRUE, Name |-> "Ann"]
        /\ o.hf = NoProfile
        /\ o.ollama = NoProfile
        /\ o.fault = "none" }

HandleEmail == \E o \in RepliesOutcomes : VisitEmail(o)

LookupThread == VisitThread("ok", "none")

HandleReply == \E content \in {"ok", "none"} : VisitReply(content, "none")

\* the status selector of the dashboard: update_applicant_status(id, status).
\* The sync and the selector are handlers of the same script, one user action
\* is served at a time.
Transition ==
    \E id \in applicant_ids, st \in {"Rejected", "Interview Round 1"} :
        /\ pc = "idle"
        /\ update_applicant_status(id, st, "none")
        /\ UNCHANGED NotStore

NextReplies ==
    \/ Arrive
    \/ StartApps
    \/ HandleEmail
    \/ BeginReplies
    \/ LookupThread
    \/ HandleReply
    \/ FinishRun
    \/ Transition

SpecReplies == Init /\ [][NextReplies]_vars

\* SpecRace: a sync run and another session (a second sync run, or the manual
\* import, whose email_data is empty) insert applicants at the same time
RaceEmails == { <<"a">>, <<" ", "a", " ">>, <<"A">>, <<"B", " ">> }

RaceInputs(raw) ==
    { [id |-> None, sender |-> Null, thread_id |-> NoThread] } \cup
    { [id |-> m, sender |-> raw, thread_id |-> 1] : m \in MsgIds }

StartInsert ==
    \E s \in Sessions, raw \in RaceEmails :
        \E e \in RaceInputs(raw) :
            BeginInsert(s, [Name |-> "Ann", Email |-> raw], e)

EndInsert == \E s \in Sessions, f \in {"none", "exec"} : FinishInsert(s, f)

NextRace ==
    \/ StartInsert
    \/ EndInsert

SpecRace == Init /\ [][NextRace]_vars

\* SpecRecover: as SpecReplies, with get_email_content answering for every
\* message of a thread; an unread message may have no attachment, and the
\* classifier may find no name in it
RecoverOutcomes ==
    RepliesOutcomes
      \cup { o \in EarlyOutcomes : o.stage = "no_attachment" }
      \cup { o \in ClassifyOutcomes({"classify"}) :
                /\ o.groq = [ok |-> TRUE, Name |-> ""]
                /\ o.hf = NoProfile
                /\ o.ollama = NoProfile
                /\ o.fault = "none" }

ConsumeEmail == \E o \in RecoverOutcomes : VisitEmail(o)

RecordReply == VisitReply("ok", "none")

NextRecover ==
    \/ Arrive
    \/ StartApps
    \/ ConsumeEmail
    \/ BeginReplies
    \/ LookupThread
    \/ RecordReply
    \/ FinishRun
    \/ Transition

SpecRecover == Init /\ [][NextRecover]_vars

-----------------------------------------------------------------------------
(* The store under arbitrary sequences of calls, as made by the ingestion    *)
(* run, the manual import and the dashboard.                                 *)

\* email_data of a Gmail message, or {} from Importer._process_dataframe
EmailDataInputs(raw) ==
    { [id |-> None, sender |-> Null, thread_id |-> NoThread] } \cup
    { [id |-> m, sender |-> raw, thread_id |-> 1] : m \in MsgIds }

\* an Incoming reply from the applicant, or an Outgoing mail sent from the app
CommDataInputs ==
    [applicant_id : ApplicantIds, gmail_message_id : MsgIds,
     sender : {<<"a">>}, direction : {"Incoming"}] \cup
    [applicant_id : ApplicantIds, gmail_message_id : MsgIds,
     sender : {<<"H", "R">>}, direction : {"Outgoing"}]

CallInsertApplicant ==
    \E raw \in RawEmails, name \in {"Ann"}, f \in Faults :
        \E e \in EmailDataInputs(raw) :
            /\ insert_applicant_and_communication(
                   [Name |-> name, Email |-> raw], e, f)
            /\ UNCHANGED NotStore

CallUpdateStatus ==
    \E id \in ApplicantIds, st \in {"Interview Round 1", "Rejected"},
       f \in Faults :
        /\ update_applicant_status(id, st, f)
        /\ UNCHANGED NotStore

CallInsertCommunication ==
    \E c \in CommDataInputs, f \in Faults :
        /\ insert_communication(c, f)
        /\ UNCHANGED NotStore

\* Manual import: Importer._process_dataframe passes {} as email_data
CallImportApplicant ==
    \E raw \in {<<"a">>, <<"B", " ">>, <<" ">>}, f \in Faults :
        /\ insert_applicant_and_communication(
               [Name |-> "Ann", Email |-> raw],
               [id |-> None, sender |-> Null, thread_id |-> NoThread], f)
        /\ UNCHANGED NotStore

\* SpecInserts: any sequence of applicant and communication inserts
InitInserts == InitStoreOnly

NextInserts ==
    \/ CallInsertApplicant
    \/ CallInsertCommunication

SpecInserts == InitInserts /\ [][NextInserts]_vars

\* SpecHistory: applicant creations and status updates as time passes
InitHistory == InitStoreOnly

NextHistory ==
    \/ CallImportApplicant
    \/ CallUpdateStatus
    \/ Tick

SpecHistory == InitHistory /\ [][NextHistory]_vars

\* SpecSlots: find_available_slots for a range of clocks, durations, windows
\* and calendars
MaxDays == 2            \* days_to_check, besides the default

TimesOfDay ==
    { at(0, 8, 50, 0), at(0, 9, 0, 0), at(0, 10, 7, 30), at(0, 10, 15, 30),
      at(0, 17, 30, 0), at(0, 17, 50, 0), at(0, 18, 20, 0) }

NowChoices == { d * Day + t : d \in {3, 4, 5, 6, 7}, t \in TimesOfDay }

DurationChoices == {15, 30, 45, 60}

DaysChoices == (-1)..MaxDays \cup {default_days_to_check}

BusyChoices ==
    { {},
      {meeting(7, 10, 0, 30)},
      {all_day(4), meeting(8, 17, 0, 60)} }

InitSlots ==
    /\ InitStoreVars
    /\ InitRunVars
    /\ inbox = {}
    /\ unread = {}
    /\ env = [m \in MsgIds |-> NoOutcome]
    /\ now \in NowChoices
    /\ duration_minutes \in DurationChoices
    /\ days_to_check \in DaysChoices
    /\ busy_slots \in BusyChoices
    /\ potential_slot_start = 0
    /\ time_max = 0
    /\ available_slots = <<>>
    /\ listing = "none"
    /\ spc = "call"
    /\ InitSchedIdle

NextSlots ==
    \/ FindSlots
    \/ SkipWeekend
    \/ SkipEvening
    \/ TrySlot
    \/ ReturnSlots

SpecSlots == InitSlots /\ [][NextSlots]_vars

\* SpecSlotsFair: the call runs on, statement after statement, until it returns
SpecSlotsFair == SpecSlots /\ WF_vars(NextSlots)

\* SpecListing: find_available_slots with a calendar that may be unreachable
ListingFails ==
    \E cause \in {"no_service", "list_raises"} : FindSlotsFails(cause)

NextListing ==
    \/ NextSlots
    \/ ListingFails

SpecListing == InitSlots /\ [][NextListing]_vars

\* SpecSchedule: applicants are imported, interviews are scheduled from the
\* booking form, and create_calendar_event is called with attachments
InitSchedule == InitStoreOnly

NextSchedule ==
    \/ CallImportApplicant
    \/ ScheduleInterview
    \/ CallCreateEvent

SpecSchedule == InitSchedule /\ [][NextSchedule]_vars

-----------------------------------------------------------------------------
(* Claims about the store *)

IsPrefix(s, t) == Len(s) <= Len(t) /\ SubSeq(t, 1, Len(s)) = s

\* C1: the store holds at most one applicant row per normalized (trimmed,
\* lower-cased) e-mail address, whatever the case or surrounding whitespace of
\* the addresses the rows were inserted with.
C1_OneApplicantPerNormalizedEmail ==
    \A a, b \in applicants :
        lower(strip(a.email)) = lower(strip(b.email)) => a = b

\* C1 witness: an insert with an address that differs from an existing
\* applicant's address only by case or whitespace has just been refused.
C1_Witness ==
    /\ ret.op = "insert_applicant_and_communication"
    /\ ret.id = None
    /\ ~not_email(ret.email)
    /\ ret.email # standardize_email(ret.email)
    /\ \E a \in applicants : a.email = standardize_email(ret.email)

MessageIdsUnique ==
    \A i, j \in 1..Len(comms) :
        comms[i].gmail_message_id = comms[j].gmail_message_id => i = j

\* C5: after every store call no two communication rows share a message id, and
\* the rows already recorded stay as they are (so inserting a recorded message
\* id leaves the table unchanged).
C5_CommunicationDedup == [][MessageIdsUnique' /\ IsPrefix(comms, comms')]_vars

\* C5 witness: insert_communication has returned True for an existing applicant
\* that has no communication row: the message id it was called with was already
\* recorded (for another applicant) and nothing was written.
C5_Witness ==
    /\ ret.op = "insert_communication"
    /\ ret.ok
    /\ ret.id \in applicant_ids
    /\ comms_of(ret.id) = <<>>
    /\ comms # <<>>

NonDecreasing(h) ==
    \A i, j \in 1..Len(h) : i <= j => h[i].changed_at <= h[j].changed_at

row_of(id) == CHOOSE a \in applicants : a.id = id

HistoryCountOK ==
    \A id \in applicant_ids : Len(history_of(id)) = 1 + okUpdates[id]

\* C8: creation and every successful update_applicant_status append exactly one
\* history row (n successful updates leave n+1 rows), rows already written are
\* never edited or removed, and a call that did not succeed appends no row and
\* leaves the applicant's status as it was.
C8_OneHistoryRowPerTransition ==
    [][ /\ HistoryCountOK'
        /\ IsPrefix(history, history')
        /\ \A id \in applicant_ids :
              okUpdates'[id] = okUpdates[id] =>
                  /\ id \in applicant_ids'
                  /\ row_of(id)'.status = row_of(id).status
                  /\ history_of(id)' = history_of(id) ]_vars

\* C8 witness: an applicant with two successful updates (three history rows) on
\* which a further update has just failed.
C8_Witness ==
    /\ ret.op = "update_applicant_status"
    /\ ~ret.ok
    /\ ret.id \in applicant_ids
    /\ okUpdates[ret.id] = 2
    /\ Len(history_of(ret.id)) = 3

-----------------------------------------------------------------------------
(* Claims about the ingestion run *)

\* C2: a second (and any later) run of the new-application step over the same
\* mailbox, seeing as unread what the earlier run left unread and with the
\* collaborators behaving the same, adds, removes and changes no applicant row.
C2_SecondRunKeepsApplicants == [][runs >= 2 => applicants' = applicants]_vars

\* C2 witness: the second run has handled a message again whose applicant the
\* first run created, and the store has refused it as a duplicate.
C2_Witness ==
    /\ runs = 2
    /\ processed # {}
    /\ ret.op = "insert_applicant_and_communication"
    /\ ret.id = None
    /\ \E a \in applicants : a.email = standardize_email(ret.email)

Last(q) == q[Len(q)]

applicants_with(raw) == {a \in applicants : a.email = standardize_email(raw)}

\* C3: after run 1, a message for which the classifier failed (it returned
\* nothing, or a result without a usable name) is unread and has no applicant;
\* after a later run in which the classifier then succeeded for it, the message
\* is read and exactly one applicant has its sender's address.
classifier_failed(kind) == kind \in {"all_failed", "noname"}

C3_RetryOnFailure ==
    pc = "idle" =>
        \A m \in inbox_ids :
            /\ (runs = 1 /\ Len(seen[m]) = 1 /\ classifier_failed(seen[m][1])) =>
                  (m \in unread /\ made[m] = None)
            /\ (Len(seen[m]) = 2 /\ classifier_failed(seen[m][1])
                    /\ seen[m][2] = "ok") =>
                  /\ m \notin unread
                  /\ Cardinality(applicants_with(message(m).sender)) = 1

\* C4: a message for which every classification backend last yielded nothing
\* is unread and no applicant was created from it.
C4_NoApplicantWhenAllBackendsFail ==
    \A m \in inbox_ids :
        (seen[m] # <<>> /\ Last(seen[m]) = "all_failed") =>
            (m \in unread /\ made[m] = None)

\* C6: after a run in which the thread lookup answered 'not found' for an
\* applicant, that applicant's thread id is null, every thread of the batch was
\* visited and the run ended with its summary, not with an error.
C6_ThreadHealing ==
    (pc = "idle" /\ not_found # {}) =>
        /\ \A id \in not_found : thread_of(id) = NoThread
        /\ threads = <<>>
        /\ result = "summary"

-----------------------------------------------------------------------------
(* Claims about the free-slot search *)

slot_set == {available_slots[i] : i \in 1..Len(available_slots)}

\* C9: with no busy interval on the calendar, no start time in the list of
\* find_available_slots falls on a Saturday or a Sunday.
C9_NoWeekendSlots ==
    busy_slots = {} => \A t \in slot_set : weekday(t) < 5

\* C9 witness: a finished search over an empty calendar that began before a
\* weekend and returned slots on the Monday after it.
C9_Witness ==
    /\ spc = "done"
    /\ busy_slots = {}
    /\ weekday(now) = 4
    /\ \E t \in slot_set : date_of(t) = date_of(now) + 3

\* C10: no start time in the list is earlier than 09:00 local time, and no
\* slot ends (start + duration_minutes) later than 18:00 of its day.
C10_WithinBusinessHours ==
    \A t \in slot_set :
        /\ t >= at(date_of(t), open_hour, 0, 0)
        /\ t + duration_minutes * Minute <= at(date_of(t), close_hour, 0, 0)

\* The one meeting of the calendars above: Monday (day 7), 10:00 to 10:30
the_meeting == meeting(7, 10, 0, 30)

\* a finished search with only that meeting on the calendar, 30-minute slots,
\* the cursor starting at or before `first` and the horizon after 10:30
one_meeting_case(first) ==
    /\ spc = "done"
    /\ busy_slots = {the_meeting}
    /\ duration_minutes = 30
    /\ initial_cursor(now) <= first
    /\ time_max > at(7, 10, 30, 0)

\* C11 as stated: with the single busy interval [10:00, 10:30) and 30-minute
\* slots, the result lacks 10:00 and holds both 09:45 and 10:30 of that day.
C11_AsStated ==
    one_meeting_case(at(7, 9, 45, 0)) =>
        /\ at(7, 10, 0, 0) \notin slot_set
        /\ at(7, 9, 45, 0) \in slot_set
        /\ at(7, 10, 30, 0) \in slot_set

\* C11 amended: with the single busy interval [10:00, 10:30) and 30-minute
\* slots, the result lacks 10:00 and also 09:45 and 10:15 (each overlaps the
\* interval), and holds 10:30 and, when the search began by 09:30, 09:30.
C11_ConflictExclusion ==
    one_meeting_case(at(7, 9, 45, 0)) =>
        /\ at(7, 10, 0, 0) \notin slot_set
        /\ at(7, 9, 45, 0) \notin slot_set
        /\ at(7, 10, 15, 0) \notin slot_set
        /\ at(7, 10, 30, 0) \in slot_set
        /\ initial_cursor(now) <= at(7, 9, 30, 0) => at(7, 9, 30, 0) \in slot_set

\* C11 witness: such a search has finished, begun on the Monday itself before
\* 09:30, with 09:30 and 10:30 in its result.
C11_Witness ==
    /\ one_meeting_case(at(7, 9, 30, 0))
    /\ date_of(now) = 7
    /\ at(7, 9, 30, 0) \in slot_set
    /\ at(7, 10, 30, 0) \in slot_set

\* the strict interval-overlap test, on [t, t + duration) and a busy interval
overlaps(t, b) == t < b.end /\ t + duration_minutes * Minute > b.start

\* C12: a candidate the walk visits (a weekday cursor with hour below 18) is
\* appended to the result if and only if [t, t + duration) overlaps no busy
\* interval under the strict test; nothing else changes the result.
C12_FreeIffNoStrictOverlap ==
    [][ LET t == potential_slot_start
        IN  IF InLoop /\ weekday(t) < 5 /\ hour_of(t) < close_hour
            THEN available_slots' =
                    IF \A b \in busy_slots : ~overlaps(t, b)
                    THEN Append(available_slots, t) ELSE available_slots
            ELSE spc = "loop" => available_slots' = available_slots ]_vars

\* C12 witness: the result holds a slot that ends exactly when the meeting
\* starts and a slot that starts exactly when it ends, and lacks a slot between.
C12_Witness ==
    /\ spc = "done"
    /\ busy_slots = {the_meeting}
    /\ \E t \in slot_set : t + duration_minutes * Minute = the_meeting.start
    /\ the_meeting.end \in slot_set
    /\ at(7, 10, 15, 0) \notin slot_set
    /\ potential_slot_start > at(7, 10, 15, 0)

-----------------------------------------------------------------------------
(* Claims about scheduling *)

\* C13: a row is added to the interviews table only by a step in which
\* create_calendar_event returned an event that this very call created on the
\* calendar, and the row carries that event's id.
C13_InterviewOnlyAfterEvent ==
    [][ interviews' # interviews =>
          /\ event_data' # NoEvent
          /\ event_data'.id \notin calendar_events
          /\ event_data'.id \in calendar_events'
          /\ Len(interviews') = Len(interviews) + 1
          /\ IsPrefix(interviews, interviews')
          /\ interviews'[Len(interviews')].google_calendar_event_id
                = event_data'.id ]_vars

\* C13 witness: an interview has been logged for an event of the calendar, and
\* an earlier or later submission whose event creation failed logged none.
C13_Witness ==
    /\ Len(interviews) = 1
    /\ interviews[1].google_calendar_event_id \in calendar_events
    /\ sched = "no_event"

\* C18: create_calendar_event returns no event when an attachment it was asked
\* to attach (the resume, the job description) is not among the attachments of
\* the event.
C18_NoEventWithUnresolvedAttachment ==
    event_data # NoEvent =>
        \A kind \in event_data.requested :
            \E a \in event_data.attachments : a.title = kind

-----------------------------------------------------------------------------
(* Further claims about the ingestion run *)

\* C14: while the new-application step is running, no step ends the run with
\* an exception, each handled message is followed by the rest of the batch,
\* and the step ends only when the batch is exhausted.
C14_BatchSurvivesFailures ==
    [][ pc = "apps" =>
          /\ result' # "raised"
          /\ pc' # "apps" => batch = <<>>
          /\ batch' # batch =>
                (batch' = Tail(batch) /\ Head(batch) \in processed') ]_vars

\* C14 witness: the step has gone through a whole batch in which the handling
\* of one message raised (it is still unread and nothing was recorded for it)
\* and an applicant was created from another.
C14_Witness ==
    /\ runs = 1
    /\ pc = "apps"
    /\ batch = <<>>
    /\ \E m1, m2 \in processed :
          /\ env[m1].stage = "raise"
          /\ m1 \in unread /\ seen[m1] = <<>> /\ made[m1] = None
          /\ made[m2] # None

-----------------------------------------------------------------------------
(* Further claims about the free-slot search *)

StrictlyIncreasing(q) == \A i \in 1..(Len(q) - 1) : q[i] < q[i + 1]

\* the 15-minute grid from the initial cursor up to the horizon
grid == { initial_cursor(now) + k * step_minutes * Minute :
             k \in 0..(days_to_check * 24 * 4 - 1) }

\* the grid times on a weekday between 09:00 and 18:00 whose slot overlaps no
\* busy interval
free_candidates ==
    { t \in grid : /\ weekday(t) < 5
                   /\ hour_of(t) >= open_hour
                   /\ hour_of(t) < close_hour
                   /\ \A b \in busy_slots : ~overlaps(t, b) }

\* C15: the list of find_available_slots is in strictly increasing order (so no
\* start time is repeated), and a finished search in which no candidate is free
\* has returned the empty list.
C15_ChronologicalOrder ==
    /\ StrictlyIncreasing(available_slots)
    /\ (spc = "done" /\ free_candidates = {}) => available_slots = <<>>

\* C15 witness: a finished search has returned slots of two different days.
C15_Witness ==
    /\ spc = "done"
    /\ Len(available_slots) >= 2
    /\ date_of(available_slots[1]) < date_of(available_slots[Len(available_slots)])

\* C16: the list find_available_slots returns is a function of 'now', the busy
\* intervals, the duration and days_to_check alone: it is the free candidates
\* of the grid, each once, in increasing order. Two invocations with the same
\* four inputs therefore return identical lists.
C16_ResultDeterminedByInputs ==
    spc = "done" =>
        /\ slot_set = free_candidates
        /\ Len(available_slots) = Cardinality(free_candidates)
        /\ StrictlyIncreasing(available_slots)

\* C16 witness: a finished search over a calendar with busy intervals, begun
\* at a time off the grid, that returned some slots and refused others.
C16_Witness ==
    /\ spc = "done"
    /\ busy_slots # {}
    /\ second_of(now) # 0
    /\ available_slots # <<>>
    /\ \E t \in grid : weekday(t) < 5 /\ hour_of(t) < close_hour
                        /\ hour_of(t) >= open_hour /\ t \notin slot_set

-----------------------------------------------------------------------------
(* Further claims about the store and the counts of a run *)

\* an absent, empty or whitespace-only address
blank(raw) == raw = Null \/ strip(raw) = <<>>

\* C17: no applicant row has an absent, empty or whitespace-only email, and a
\* call of insert_applicant_and_communication with such an email returns no id
\* and leaves the applicant, history and communication tables as they were.
C17_NoApplicantWithoutEmail ==
    /\ [](\A a \in applicants : ~blank(a.email))
    /\ [][(ret'.op = "insert_applicant_and_communication" /\ blank(ret'.email))
            => (ret'.id = None /\ UNCHANGED <<applicants, history, comms>>)]_vars

\* C17 witness: with an applicant already in the store, a call with a
\* whitespace-only email has returned no id.
C17_Witness ==
    /\ ret.op = "insert_applicant_and_communication"
    /\ ret.email = <<" ">>
    /\ ret.id = None
    /\ applicants # {}

\* C19: in the new-application step the count grows exactly with the applicant
\* rows: a step that handles a message adds one to the count if and only if it
\* adds an applicant row.
C19_CountIsApplicantsCreated ==
    [][ pc = "apps" =>
          count' - count = Cardinality(applicants') - Cardinality(applicants)
      ]_vars

\* C20: in the reply step the count grows exactly with the communication rows:
\* a step adds one to the count if and only if it adds a communication row.
C20_ReplyCountIsRowsCreated ==
    [][ (pc = "replies" \/ pc = "thread") =>
          (replies' - replies) = (Len(comms') - Len(comms))
      ]_vars

-----------------------------------------------------------------------------
(* The skips of the new-application step *)

\* the message the new-application step is about to handle, as SpecTwice
\* replays it
handling(stage) ==
    /\ pc = "apps"
    /\ batch # <<>>
    /\ Head(batch) \notin processed
    /\ env[Head(batch)].stage = stage

\* C21: handling an unread message that has no usable attachment marks it read,
\* leaves the applicants, their history and the communications as they were,
\* does not call the classifier, and goes on with the rest of the batch.
C21_NoAttachmentSkipped ==
    [][ handling("no_attachment") =>
          /\ Head(batch) \notin unread'
          /\ applicants' = applicants
          /\ history' = history
          /\ comms' = comms
          /\ seen' = seen
          /\ batch' = Tail(batch)
          /\ pc' = "apps"
          /\ result' = result ]_vars

\* C21 witness: a batch of two messages is through; one had no attachment (it
\* is read, was never classified and made no applicant), the other made an
\* applicant.
C21_Witness ==
    /\ runs = 1
    /\ pc = "apps"
    /\ batch = <<>>
    /\ \E m1, m2 \in processed :
          /\ env[m1].stage = "no_attachment"
          /\ m1 \notin unread /\ seen[m1] = <<>> /\ made[m1] = None
          /\ made[m2] # None
          /\ Cardinality(applicants) = 1
          /\ Len(comms) = 1

\* the sender of the message being handled already is an applicant, and the
\* classifier returns a usable name for it
duplicate_sender ==
    /\ handling("classify")
    /\ ~no_usable_name(extract_info(env[Head(batch)].groq, env[Head(batch)].hf,
                                    env[Head(batch)].ollama))
    /\ \E a \in applicants :
          a.email = lower(strip(message(Head(batch)).sender))

\* C22: handling a message whose sender's standardised address already is an
\* applicant's returns no id from the store, leaves every applicant row and
\* the history as they were, and marks the message read.
C22_DuplicateSenderSkipped ==
    [][ duplicate_sender =>
          /\ ret'.op = "insert_applicant_and_communication"
          /\ ret'.id = None
          /\ applicants' = applicants
          /\ history' = history
          /\ Head(batch) \notin unread' ]_vars

\* C22 witness: two messages whose senders differ in case and blanks only were
\* handled with a working store; the first made the applicant, the second made
\* none and both are read.
C22_Witness ==
    /\ pc = "apps"
    /\ batch = <<>>
    /\ \E m1, m2 \in processed :
          /\ m1 # m2
          /\ message(m1).sender # message(m2).sender
          /\ env[m1].stage = "classify" /\ env[m2].stage = "classify"
          /\ env[m2].fault = "none"
          /\ made[m1] # None /\ made[m2] = None
          /\ seen[m2] = <<"ok">>
          /\ {m1, m2} \cap unread = {}
          /\ Cardinality(applicants) = 1
          /\ Len(history) = 1

-----------------------------------------------------------------------------
(* Claims about the reply step *)

\* C24: after a run in which the thread lookup of an applicant failed with an
\* error other than 'not found', that applicant still has its thread id, every
\* thread of the batch was visited and the run ended with its summary, not
\* with an error.
C24_TransportErrorSkipsThread ==
    (pc = "idle" /\ transport_errors # {}) =>
        /\ \A id \in transport_errors : thread_of(id) # NoThread
        /\ threads = <<>>
        /\ result = "summary"

elements(q) == {q[i] : i \in 1..Len(q)}

status_of(id) == (CHOOSE a \in applicants : a.id = id).status

\* the reply step looks up the thread of the applicant at the head of threads
polls == pc = "replies" /\ threads # <<>> /\ threads' = Tail(threads)

\* the reply step records a message
adds_reply == pc = "thread" /\ Len(comms') = Len(comms) + 1

\* C23: the threads a reply step works on are those of the applicants that
\* have a non-terminal status and a thread id; whenever the step looks up an
\* applicant's thread, and whenever it records a reply for an applicant, that
\* applicant is not in a terminal status and has a thread id.
C23_OnlyActiveThreadsPolled ==
    [][ /\ (pc = "apps" /\ pc' = "replies") =>
              \A a \in applicants :
                  a.id \in elements(active_threads') <=>
                      (a.status \notin TerminalStatuses /\ a.thread # NoThread)
        /\ polls => /\ status_of(Head(threads)) \notin TerminalStatuses
                    /\ thread_of(Head(threads)) # NoThread
        /\ adds_reply =>
              status_of(Last(comms').applicant_id) \notin TerminalStatuses ]_vars

\* C23 witness: a reply step has read the active threads; a rejected applicant
\* with a thread id, in whose thread a message of the applicant waits
\* unrecorded, is not among them.
C23_Witness ==
    /\ pc = "replies"
    /\ threads = active_threads
    /\ \E a \in applicants :
          /\ a.status = "Rejected"
          /\ a.thread # NoThread
          /\ a.id \notin elements(active_threads)
          /\ \E x \in inbox :
                /\ x.thread = a.thread
                /\ x.sender # Me
                /\ x.id \notin processed
                /\ ~message_id_taken(x.id)

\* the reply step is about to look at the message at the head of tmsgs
visits_reply == pc = "thread" /\ tmsgs # <<>>

\* C25: in the reply step a thread message sent by the HR user itself adds no
\* communication, and a communication the step adds is that of the message at
\* hand, has direction Incoming and carries the id of the applicant whose
\* thread is being visited and holds the message.
C25_RepliesAreIncoming ==
    [][ visits_reply =>
          /\ message(Head(tmsgs)).sender = Me => comms' = comms
          /\ comms' # comms =>
                /\ comms' = Append(comms, Last(comms'))
                /\ Last(comms').gmail_message_id = Head(tmsgs)
                /\ Last(comms').direction = "Incoming"
                /\ Last(comms').applicant_id = cur
                /\ thread_of(cur) = message(Head(tmsgs)).thread ]_vars

\* C25 witness: the reply step of the first run went through the thread of an
\* applicant and met there a message of the HR user, which the new-application
\* step never handled: it is in RunState and no communication has its id.
C25_Witness ==
    /\ runs = 1
    /\ pc = "idle"
    /\ result = "summary"
    /\ \E x \in inbox :
          /\ x.sender = Me
          /\ x.id \in processed
          /\ seen[x.id] = <<>>
          /\ ~message_id_taken(x.id)
          /\ \E a \in applicants :
                a.thread = x.thread /\ a.id \in elements(active_threads)

\* C26: the reply step leaves a thread message that is in RunState alone (no
\* communication, no count), the new-application step goes from a message to
\* the next one only with the message in RunState, and a message of the batch
\* that is in RunState already is not handled again.
C26_HandledOncePerRun ==
    [][ /\ (visits_reply /\ Head(tmsgs) \in processed) =>
              /\ comms' = comms
              /\ replies' = replies
              /\ processed' = processed
        /\ (pc = "apps" /\ batch # <<>> /\ batch' # batch) =>
              /\ batch' = Tail(batch)
              /\ Head(batch) \in processed'
        /\ (pc = "apps" /\ batch # <<>> /\ Head(batch) \in processed) =>
              /\ UNCHANGED <<applicants, history, comms, unread>>
              /\ seen' = seen
              /\ count' = count ]_vars

\* C26 witness: in the first run the new-application step handled a message of
\* a known sender (classified, no applicant made, no communication); the reply
\* step then went through the thread of an active applicant that holds this
\* message, and the message still has no communication.
C26_Witness ==
    /\ runs = 1
    /\ pc = "idle"
    /\ result = "summary"
    /\ \E m \in processed :
          /\ seen[m] = <<"ok">>
          /\ made[m] = None
          /\ message(m).sender # Me
          /\ ~message_id_taken(m)
          /\ \E a \in applicants :
                /\ a.thread = message(m).thread
                /\ a.id \in elements(active_threads)

-----------------------------------------------------------------------------
(* Claims about the initial cursor and the horizon of the free-slot search *)

\* t rounded up to the next multiple of 15 minutes
round_up(t) ==
    ((t + step_minutes * Minute - 1) \div (step_minutes * Minute))
        * (step_minutes * Minute)

\* find_available_slots computes its cursor and its horizon
starts_search == spc = "call" /\ spc' = "loop"

\* C27: the initial cursor is not earlier than now and, when now is between
\* 09:00 and 18:00, less than 15 minutes after now, with a minute among 0, 15,
\* 30, 45 and zero seconds.
C27_CursorIsNowRoundedUp ==
    [][ starts_search =>
          /\ potential_slot_start' >= now
          /\ (hour_of(now) >= open_hour /\ hour_of(now) < close_hour) =>
                /\ potential_slot_start' - now < step_minutes * Minute
                /\ minute_of(potential_slot_start') % step_minutes = 0
                /\ second_of(potential_slot_start') = 0 ]_vars

C29_SlotsWithinWindow ==
    /\ [](spc \in {"loop", "done"} =>
            \A t \in slot_set :
                /\ t % (step_minutes * Minute) = 0
                /\ time_max - days_to_check * Day <= t
                /\ t < time_max)
    /\ [][ (spc = "loop" /\ potential_slot_start >= time_max) =>
              available_slots' = available_slots ]_vars

\* C29 witness: a search has ended after a jump over a weekend took the cursor
\* past the horizon; slots were returned, the last of them before the horizon.
C29_Witness ==
    /\ spc = "done"
    /\ potential_slot_start > time_max
    /\ weekday(time_max) >= 5
    /\ available_slots # <<>>
    /\ available_slots[Len(available_slots)] < time_max

\* C30: with an all-day entry on a date among the events, no returned slot
\* starts on that date.
C30_AllDayBlocksItsDay ==
    spc \in {"loop", "done"} =>
        \A d \in 0..(2 * 7) :
            all_day(d) \in busy_slots =>
                \A t \in slot_set : date_of(t) # d

\* C30 witness: a search over a window that holds a Friday with an all-day
\* entry has ended; it returned slots of the day before and of the Monday
\* after, none of that Friday.
C30_Witness ==
    /\ spc = "done"
    /\ all_day(4) \in busy_slots
    /\ \E t \in slot_set : date_of(t) = 3
    /\ \E t \in slot_set : date_of(t) = 7
    /\ \A t \in slot_set : date_of(t) # 4

-----------------------------------------------------------------------------
(* Failures of the collaborators *)

\* C31: when the events of the calendar could not be listed, what
\* find_available_slots returns is not the empty list, the result of a search
\* that found no free slot.
C31_ListingFailureDistinguishable ==
    (spc = "done" /\ listing = "list_raises") => available_slots # <<>>

\* C32: a run that cannot list the unread messages ends at once with an error
\* and without summary; it writes no applicant, history or communication row,
\* marks no message read and counts nothing.
C32_UnreachableMailSourceEndsRun ==
    [][ (pc = "idle" /\ runs' = runs + 1 /\ pc' # "apps") =>
          /\ pc' = "idle"
          /\ result' = "raised"
          /\ UNCHANGED <<applicants, history, comms, unread>>
          /\ count' = 0
          /\ replies' = 0 ]_vars

\* C32 witness: a first run made an applicant and left a message unread; the
\* second run could not reach the mail source and ended with an error, the
\* applicant, its history and the unread message as they were.
C32_Witness ==
    /\ runs = 2
    /\ pc = "idle"
    /\ result = "raised"
    /\ processed = {}
    /\ Cardinality(applicants) = 1
    /\ Len(history) = 1
    /\ Len(comms) = 1
    /\ unread # {}

-----------------------------------------------------------------------------
(* Further claims about the store *)

\* a call of insert_applicant_and_communication has returned
insert_returns ==
    /\ ret'.op = "insert_applicant_and_communication"
    /\ (ret' # ret \/ applicants' # applicants \/ history' # history)

\* C33: a call of insert_applicant_and_communication that returns an id has
\* added one applicant with that id and status New, its history row New and
\* at most the Incoming communication of that applicant; a call that returns
\* no id has left applicants, history and communications as they were; every
\* applicant has a history whose first row is New.
C33_InsertAllOrNothing ==
    /\ [](\A a \in applicants :
            /\ history_of(a.id) # <<>>
            /\ history_of(a.id)[1].status_name = "New")
    /\ [][ insert_returns =>
             IF ret'.id # None
             THEN /\ \E a \in applicants' :
                        /\ a.id = ret'.id
                        /\ a.status = "New"
                        /\ applicants' = applicants \cup {a}
                        /\ a \notin applicants
                  /\ Len(history') = Len(history) + 1
                  /\ history' = Append(history, Last(history'))
                  /\ Last(history').applicant_id = ret'.id
                  /\ Last(history').status_name = "New"
                  /\ \/ comms' = comms
                     \/ /\ comms' = Append(comms, Last(comms'))
                        /\ Last(comms').applicant_id = ret'.id
                        /\ Last(comms').direction = "Incoming"
             ELSE UNCHANGED <<applicants, history, comms>> ]_vars

\* C33 witness: an insert has just been rolled back on the message id of its
\* communication, which another applicant's communication holds: no id came
\* back, and there is one applicant, one history row, one communication.
C33_Witness ==
    /\ ret.op = "insert_applicant_and_communication"
    /\ ret.id = None
    /\ nextId = 3
    /\ Cardinality(applicants) = 1
    /\ Len(history) = 1
    /\ Len(comms) = 1

\* the standardised address of the call session s is in
tx_email(s) == lower(strip(tx[s].applicant_data.Email))

\* C34: no two applicants have the same standardised address, and a call that
\* passed its duplicate check and reaches its INSERTs when an applicant with
\* its address has been committed returns no id and writes no applicant,
\* history or communication row.
C34_RaceLoserWritesNothing ==
    /\ [](\A a, b \in applicants : a.email = b.email => a = b)
    /\ [][ \A s \in Sessions :
             (/\ tx[s].phase = "checked"
              /\ tx'[s].phase # "checked"
              /\ \E a \in applicants : a.email = tx_email(s)) =>
                 /\ ret'.id = None
                 /\ UNCHANGED <<applicants, history, comms>> ]_vars

\* C34 witness: both sessions passed the duplicate check with addresses that
\* differ in case or blanks only; one committed, the other was stopped by the
\* constraint; there is one applicant and one history row.
C34_Witness ==
    \E s, t \in Sessions :
        /\ tx[s].phase = "committed"
        /\ tx[t].phase = "unique_violation"
        /\ tx[s].applicant_data.Email # tx[t].applicant_data.Email
        /\ tx_email(s) = tx_email(t)
        /\ Cardinality(applicants) = 1
        /\ Len(history) = 1
        /\ ret.id = None

-----------------------------------------------------------------------------
(* What a sync run leaves alone *)

\* C35: a step of a sync run keeps every applicant's name, address and status,
\* and only appends to the history and to the communications.
C35_RunOnlyAppends ==
    [][ (pc # "idle" \/ pc' # "idle") =>
          /\ \A a \in applicants :
                \E b \in applicants' :
                    /\ b.id = a.id
                    /\ b.name = a.name
                    /\ b.email = a.email
                    /\ b.status = a.status
          /\ IsPrefix(history, history')
          /\ IsPrefix(comms, comms') ]_vars

\* C35 witness: in a second run the reply step has sent to the store a message
\* of a thread that two applicants share; the message is recorded for the
\* other applicant, and the two communications of the first run are there.
C35_Witness ==
    /\ runs = 2
    /\ pc # "idle"
    /\ ret.op = "insert_communication"
    /\ ret.ok
    /\ Cardinality(applicants) = 2
    /\ Len(comms) = 2
    /\ \E m \in processed :
          \E i \in 1..Len(comms) :
              /\ comms[i].gmail_message_id = m
              /\ comms[i].applicant_id # ret.id

\* the positions of the communications that carry message id m
rows_of_message(m) == {i \in 1..Len(comms) : comms[i].gmail_message_id = m}

\* C36: the applicant made from a message has status New, the standardised
\* sender address of the message as its address, the thread id of the message,
\* and one communication, which is Incoming and the only one that carries the
\* id of the message.
C36_ApplicantMadeFromMessage ==
    \A m \in MsgIds :
        made[m] # None =>
            \E a \in applicants :
                /\ a.id = made[m]
                /\ a.status = "New"
                /\ a.email = lower(strip(message(m).sender))
                /\ a.thread = message(m).thread
                /\ Len(comms_of(a.id)) = 1
                /\ comms_of(a.id)[1].gmail_message_id = m
                /\ comms_of(a.id)[1].direction = "Incoming"
                /\ Cardinality(rows_of_message(m)) = 1

\* C36 witness: an applicant was made from a message whose sender address has
\* a leading blank and a capital letter.
C36_Witness ==
    \E m \in MsgIds :
        /\ made[m] # None
        /\ message(m).sender = <<" ", "A">>
        /\ \E a \in applicants : a.id = made[m] /\ a.email = <<"a">>

-----------------------------------------------------------------------------
(* The status column and the history *)

\* C37: every applicant's status is the status_name of the last history row
\* inserted for it.
C37_StatusIsLastHistoryRow ==
    \A a \in applicants :
        /\ history_of(a.id) # <<>>
        /\ Last(history_of(a.id)).status_name = a.status

\* C37 witness: an applicant whose status was changed with success and on
\* which a further update_applicant_status has just failed.
C37_Witness ==
    /\ ret.op = "update_applicant_status"
    /\ ~ret.ok
    /\ \E a \in applicants :
          /\ a.id = ret.id
          /\ a.status # "New"
          /\ Len(history_of(a.id)) = 2
          /\ Last(history_of(a.id)).status_name = a.status

-----------------------------------------------------------------------------
(* Messages that are read and make no applicant *)

\* C38: when the new-application step marks a message read and no applicant
\* was made from it, the message has no usable attachment or its standardised
\* sender address is that of an applicant already in the store.
C38_ReadWithoutApplicantOnlyIfSkipped ==
    [][ (/\ pc = "apps"
         /\ batch # <<>>
         /\ Head(batch) \in unread
         /\ Head(batch) \notin unread'
         /\ made'[Head(batch)] = None) =>
            \/ env[Head(batch)].stage = "no_attachment"
            \/ \E a \in applicants :
                  a.email = lower(strip(message(Head(batch)).sender)) ]_vars

-----------------------------------------------------------------------------
(* Termination of the free-slot search *)

\* C39: every call of find_available_slots returns, and every iteration of its
\* loop moves the cursor forward.
C39_SearchTerminates ==
    /\ <>(spc = "done")
    /\ [][ (spc = "loop" /\ spc' = "loop") =>
              potential_slot_start' > potential_slot_start ]_vars

\* C39 witness: a search over seven days with events on the calendar has
\* returned, with slots before and after the weekend it went over.
C39_Witness ==
    /\ spc = "done"
    /\ days_to_check = default_days_to_check
    /\ busy_slots # {}
    /\ \E t, u \in slot_set : date_of(t) < 5 /\ date_of(u) > 6

-----------------------------------------------------------------------------
(* A reply that the new-application step consumed *)

\* message m made no applicant, and applicant a is its sender, whose thread
\* holds it and was among the active threads of the run that has just ended
consumed_reply(m, a) ==
    /\ m \in inbox_ids
    /\ made[m] = None
    /\ message(m).sender # Me
    /\ a.email = lower(strip(message(m).sender))
    /\ a.thread = message(m).thread
    /\ a.id \in elements(active_threads)

\* the second run has just ended, and its predecessor's new-application step
\* handled m: either the second run found nothing unread and m is read, or m
\* is the one message the second run found unread, classified for the second
\* time
consumed_by_first_run(m) ==
    /\ runs = 2
    /\ \/ (count = 0 /\ m \notin unread)
       \/ (count = 1 /\ Len(seen[m]) = 2)

\* C40: when the second run ends with its summary, every message that the
\* first run's new-application step consumed without making an applicant, and
\* whose sender is an applicant with that thread, active in the second run, is
\* recorded as an Incoming communication of that applicant.
C40_ConsumedReplyRecordedNextRun ==
    (pc = "idle" /\ result = "summary") =>
        \A m \in MsgIds : \A a \in applicants :
            (consumed_reply(m, a) /\ consumed_by_first_run(m)) =>
                \E i \in rows_of_message(m) :
                    /\ comms[i].direction = "Incoming"
                    /\ comms[i].applicant_id = a.id

\* the same statement for the messages the first run marked read, which the
\* second run's reply step records
C40_ReadReplyRecordedNextRun ==
    (pc = "idle" /\ result = "summary" /\ runs = 2 /\ count = 0) =>
        \A m \in MsgIds : \A a \in applicants :
            (consumed_reply(m, a) /\ m \notin unread) =>
                \E i \in rows_of_message(m) :
                    /\ comms[i].direction = "Incoming"
                    /\ comms[i].applicant_id = a.id

====
